---- MODULE Spec2Model ----
(***************************************************************************)
(* State-machine model of the local service orchestration layer of the     *)
(* companion app (electron main process):                                  *)
(*   - TTSService / VideoAnalyzerService: startServer, stopServer and the  *)
(*     stdout / stderr / close / error / timeout callbacks of the spawned  *)
(*     backing server (electron/tts.ts, electron/video-analyzer.ts);       *)
(*   - WhisperService: downloadModel / downloadFromUrl / deleteModel over  *)
(*     a small file system, transcribe and cancelTranscription             *)
(*     (electron/whisper.ts), with the job list of the useTranscription    *)
(*     hook that calls them;                                               *)
(*   - OllamaService: generateStream and pullModel over a newline-         *)
(*     delimited JSON response;                                            *)
(*   - the domain calls of the facades, each one makeRequest.              *)
(* Every action is one JavaScript callback run to completion on the event  *)
(* loop. External programs and the HTTP server are the environment: their  *)
(* outputs are chosen nondeterministically from small sets.                *)
(***************************************************************************)
EXTENDS Integers, Sequences, FiniteSets, TLC

VARIABLES
    serverProcess,  \* TTSService.serverProcess: 0 = null, otherwise a pid
    isServerReady,  \* TTSService.isServerReady
    proc,           \* the processes spawned by startServer, by pid
    startCall,      \* per startServer call that spawned: its promise and its timer
    printed,        \* data chunks the server processes have printed so far
    quit,           \* the 'before-quit' handler of the app has run
    dir,            \* models directory: path -> inode (0 = no such file)
    files,          \* inode -> the body chunks written to it
    dl,             \* the downloadModel calls, by call number
    dlProgress,     \* model name -> last 'model-download-progress' percent sent
    del,            \* the deleteModel calls so far and the latest one's result
    activeTranscriptions,   \* WhisperService.activeTranscriptions: path -> call (0 = no entry)
    tr,             \* the transcribe calls, by call number
    trCancel,       \* the cancelTranscription calls so far and the latest one's result
    trProgress,     \* file path -> last 'transcription-progress' percent sent
    jobs,           \* useTranscription jobs: transcribe call -> status shown in the UI
    now,            \* the system clock, in milliseconds
    stream,         \* the streaming call of OllamaService and its response stream
    rq              \* the domain calls made on the TTS / video facade, by call number

srvVars == <<serverProcess, isServerReady, proc, startCall, printed, quit>>
dlVars == <<dir, files, dl, dlProgress, del>>
trVars == <<activeTranscriptions, tr, trCancel, trProgress, jobs, now>>

olVars == <<stream>>
rqVars == <<rq>>

vars == <<srvVars, dlVars, trVars, olVars, rqVars>>

----------------------------------------------------------------------------
(* Bounds of the model *)

MaxProcs == 2       \* startServer calls that spawn a process
MaxOut == 2         \* data chunks the server processes print in all

MaxDl == 2          \* downloadModel calls
NChunks == 2        \* data chunks of a response body
MaxDeletes == 2     \* deleteModel calls
ChunkBytes == 500   \* bytes per data chunk

MaxTr == 2          \* transcribe calls
MaxCancels == 2     \* cancelTranscription calls
MaxTime == 2        \* milliseconds the clock can show

MaxLines == 3       \* lines of a streamed response

MaxReq == 2         \* domain calls on a facade

(* Program constants *)

StartupTimeoutMs == 30000

Pids == 1..MaxProcs

----------------------------------------------------------------------------
(* Text is a sequence of tokens; a chunk boundary may fall between any two *)
(* tokens. The readiness substring "Running on" spans two tokens.          *)

ReadySubstring == <<"Running ", "on">>

Chunks == { <<"Running ", "on">>, <<"Running ">>, <<"on">> }

\* String.prototype.includes
Includes(text, sub) ==
    \E i \in 1..(Len(text) - Len(sub) + 1) :
        SubSeq(text, i, i + Len(sub) - 1) = sub

----------------------------------------------------------------------------
(* Promise settlement: the first resolve / reject wins, later ones are     *)
(* ignored.                                                                *)

Settle(promise, outcome) == IF promise = "pending" THEN outcome ELSE promise

NoProc == [st |-> "none", signalled |-> FALSE, stdout |-> <<>>, stderr |-> <<>>]
\* an exited process: its handlers' closure (the captured output) is gone
ClosedProc == [st |-> "closed", signalled |-> FALSE, stdout |-> <<>>, stderr |-> <<>>]
NoCall == [promise |-> "none", timer |-> "none", delay |-> 0, reason |-> <<>>]

InitServer ==
    /\ serverProcess = 0
    /\ isServerReady = FALSE
    /\ proc = [p \in Pids |-> NoProc]
    /\ startCall = [p \in Pids |-> NoCall]
    /\ printed = 0
    /\ quit = FALSE

\* ChildProcess.kill('SIGTERM'): delivers the signal if the process still runs
Kill(procs, p) ==
    IF p \in Pids /\ procs[p].st = "running"
    THEN [procs EXCEPT ![p].signalled = TRUE]
    ELSE procs

\* startServer, first branch: the server is already running
StartServerAlready ==
    /\ ~quit
    /\ serverProcess # 0 /\ isServerReady
    /\ UNCHANGED srvVars
    /\ UNCHANGED <<dlVars, trVars, olVars, rqVars>>

\* startServer, spawning branch
StartServerSpawn ==
    /\ ~quit
    /\ ~(serverProcess # 0 /\ isServerReady)
    /\ \E p \in Pids :
        /\ proc[p].st = "none"
        /\ \A q \in Pids : q < p => proc[q].st # "none"
        /\ serverProcess' = p
        /\ proc' = [proc EXCEPT ![p].st = "running"]
        /\ startCall' = [startCall EXCEPT ![p] =
                [promise |-> "pending", timer |-> "armed",
                 delay |-> StartupTimeoutMs, reason |-> <<>>]]
    /\ UNCHANGED <<isServerReady, printed>>
    /\ UNCHANGED quit
    /\ UNCHANGED <<dlVars, trVars, olVars, rqVars>>

\* the ready check of the stdout / stderr data handlers
ChunkReady(output) == Includes(output, ReadySubstring)

\* serverProcess.stdout.on('data')
StdoutData(p, output) ==
    /\ ~quit
    /\ proc[p].st = "running"
    /\ printed < MaxOut
    /\ printed' = printed + 1
    /\ proc' = [proc EXCEPT ![p].stdout = @ \o output]
    /\ IF ChunkReady(output)
       THEN /\ isServerReady' = TRUE
            /\ startCall' = [startCall EXCEPT ![p].promise = Settle(@, "resolved")]
       ELSE UNCHANGED <<isServerReady, startCall>>
    /\ UNCHANGED serverProcess
    /\ UNCHANGED quit
    /\ UNCHANGED <<dlVars, trVars, olVars, rqVars>>

\* serverProcess.stderr.on('data')
StderrData(p, output) ==
    /\ ~quit
    /\ proc[p].st = "running"
    /\ printed < MaxOut
    /\ printed' = printed + 1
    /\ proc' = [proc EXCEPT ![p].stderr = @ \o output]
    /\ IF ChunkReady(output)
       THEN /\ isServerReady' = TRUE
            /\ startCall' = [startCall EXCEPT ![p].promise = Settle(@, "resolved")]
       ELSE UNCHANGED <<isServerReady, startCall>>
    /\ UNCHANGED serverProcess
    /\ UNCHANGED quit
    /\ UNCHANGED <<dlVars, trVars, olVars, rqVars>>

\* a failure reason that never reports the captured output
ReasonNoOutput(process) == <<"No output">>

\* the reason in the error of the close handler: stderr || stdout || 'No output'
FailureReason(process) ==
    IF process.stderr # <<>> THEN process.stderr
    ELSE IF process.stdout # <<>> THEN process.stdout
    ELSE <<"No output">>

\* a close handler that resets the ready flag but keeps the handle
ServerCloseKeepsHandle(p) ==
    /\ ~quit
    /\ proc[p].st \in {"running", "spawnfailed"}
    /\ proc' = [proc EXCEPT ![p] = ClosedProc]
    /\ isServerReady' = FALSE
    /\ startCall' = [startCall EXCEPT ![p].promise = Settle(@, "failed"),
                                      ![p].reason = IF startCall[p].promise = "pending"
                                                    THEN FailureReason(proc[p]) ELSE @]
    /\ UNCHANGED <<serverProcess, printed>>
    /\ UNCHANGED quit
    /\ UNCHANGED <<dlVars, trVars, olVars, rqVars>>

\* serverProcess.on('close'): the process has exited and its streams closed
ServerClose(p) ==
    /\ ~quit
    /\ proc[p].st \in {"running", "spawnfailed"}
    /\ proc' = [proc EXCEPT ![p] = ClosedProc]
    /\ isServerReady' = FALSE
    /\ serverProcess' = 0
    /\ startCall' = [startCall EXCEPT ![p].promise = Settle(@, "failed"),
                                      ![p].reason = IF startCall[p].promise = "pending"
                                                    THEN FailureReason(proc[p]) ELSE @]
    /\ UNCHANGED printed
    /\ UNCHANGED quit
    /\ UNCHANGED <<dlVars, trVars, olVars, rqVars>>

\* serverProcess.on('error'): the process could not be spawned
ServerError(p) ==
    /\ ~quit
    /\ proc[p].st = "running"
    /\ proc[p].stdout = <<>> /\ proc[p].stderr = <<>>
    /\ ~proc[p].signalled
    /\ proc' = [proc EXCEPT ![p].st = "spawnfailed"]
    /\ isServerReady' = FALSE
    /\ startCall' = [startCall EXCEPT ![p].promise = Settle(@, "error")]
    /\ UNCHANGED <<serverProcess, printed>>
    /\ UNCHANGED quit
    /\ UNCHANGED <<dlVars, trVars, olVars, rqVars>>

\* a stopServer that signals the process but still holds it as running
StopServerKeepsState ==
    /\ ~quit
    /\ IF serverProcess # 0
       THEN /\ proc' = Kill(proc, serverProcess)
            /\ UNCHANGED <<serverProcess, isServerReady>>
       ELSE UNCHANGED <<proc, serverProcess, isServerReady>>
    /\ UNCHANGED <<startCall, printed>>
    /\ UNCHANGED quit
    /\ UNCHANGED <<dlVars, trVars, olVars, rqVars>>

\* stopServer
StopServer ==
    /\ ~quit
    /\ IF serverProcess # 0
       THEN /\ proc' = Kill(proc, serverProcess)
            /\ serverProcess' = 0
            /\ isServerReady' = FALSE
       ELSE UNCHANGED <<proc, serverProcess, isServerReady>>
    /\ UNCHANGED <<startCall, printed>>
    /\ UNCHANGED quit
    /\ UNCHANGED <<dlVars, trVars, olVars, rqVars>>

\* app.on('before-quit'): stop the server if the facade reports it running
BeforeQuit ==
    /\ ~quit
    /\ quit' = TRUE
    /\ IF isServerReady
       THEN IF serverProcess # 0
            THEN /\ proc' = Kill(proc, serverProcess)
                 /\ serverProcess' = 0
                 /\ isServerReady' = FALSE
            ELSE UNCHANGED <<proc, serverProcess, isServerReady>>
       ELSE UNCHANGED <<proc, serverProcess, isServerReady>>
    /\ UNCHANGED <<startCall, printed>>
    /\ UNCHANGED <<dlVars, trVars, olVars, rqVars>>

\* the setTimeout callback of the startServer call that spawned p: it runs
\* once the call's delay has elapsed; timers run in the order they fall due
StartupTimeout(p) ==
    /\ ~quit
    /\ startCall[p].timer = "armed"
    /\ \A q \in Pids : q < p /\ startCall[q].timer = "armed"
                          => startCall[q].delay > startCall[p].delay
    /\ IF ~isServerReady
       THEN /\ IF serverProcess # 0
               THEN /\ proc' = Kill(proc, serverProcess)
                    /\ serverProcess' = 0
               ELSE UNCHANGED <<proc, serverProcess>>
            /\ isServerReady' = FALSE
            /\ startCall' = [startCall EXCEPT ![p].timer = "fired",
                                              ![p].promise = Settle(@, "timeout")]
       ELSE /\ startCall' = [startCall EXCEPT ![p].timer = "fired"]
            /\ UNCHANGED <<proc, serverProcess, isServerReady>>
    /\ UNCHANGED printed
    /\ UNCHANGED quit
    /\ UNCHANGED <<dlVars, trVars, olVars, rqVars>>

NextServer ==
    \/ StartServerAlready
    \/ StartServerSpawn
    \/ \E p \in Pids, c \in Chunks : StdoutData(p, c)
    \/ \E p \in Pids, c \in Chunks : StderrData(p, c)
    \/ \E p \in Pids : ServerClose(p)
    \/ \E p \in Pids : ServerError(p)
    \/ StopServer
    \/ \E p \in Pids : StartupTimeout(p)
    \/ BeforeQuit

----------------------------------------------------------------------------
(* WhisperService: model downloads (electron/whisper.ts)                   *)

Catalog == {"tiny"}                 \* the keys of MODEL_DOWNLOAD_URLS
ModelNames == Catalog \cup {"huge"}  \* "huge" is not in the catalog

Calls == 1..MaxDl
Inodes == 1..(2 * MaxDl)            \* a call opens at most two write streams
BodyBytes == NChunks * ChunkBytes
\* what the server answers: status, Location header present, Content-Length
\* (0 = header absent)
Responses ==
    { [status |-> 200, location |-> FALSE, length |-> BodyBytes],
      [status |-> 200, location |-> FALSE, length |-> 0],
      [status |-> 302, location |-> TRUE,  length |-> 0],
      [status |-> 302, location |-> FALSE, length |-> 0],
      [status |-> 404, location |-> FALSE, length |-> 0] }

NoError == [kind |-> "none", status |-> 0]
IdleCall == [st |-> "idle", name |-> "", fd |-> 0, got |-> 0, total |-> 0,
             gets |-> 0, err |-> NoError]

\* a settled call keeps its outcome; its closure (stream, counters) is gone
Ended(call, st, err) ==
    [call EXCEPT !.st = st, !.err = err, !.fd = 0, !.got = 0, !.total = 0]

InitDownload ==
    /\ dir = [modelPath |-> 0, tempPath |-> 0]
    /\ files = [i \in Inodes |-> {}]
    /\ dl = [d \in Calls |-> IdleCall]
    /\ dlProgress = [n \in Catalog |-> -1]
    /\ del = [n |-> 0, name |-> "", result |-> FALSE]

\* inodes in use: named in the directory or held open by a write stream
UsedInodes == {dir.modelPath, dir.tempPath} \cup {dl[d].fd : d \in Calls}
FreshInode == CHOOSE i \in Inodes : i \notin UsedInodes

\* fs.createWriteStream(tempPath): flags 'w' create the file or truncate it.
\* The stream's open is taken to have happened by the time the next callback
\* runs; a second stream on the same path shares the file with the first.
OpenTemp ==
    IF dir.tempPath = 0 THEN FreshInode ELSE dir.tempPath

CreateWriteStream(d) ==
    /\ dir' = [dir EXCEPT !.tempPath = OpenTemp]
    /\ files' = [files EXCEPT ![OpenTemp] = {}]

\* a rename that copies: the temp file is left behind
RenameLeavesTemp(directory) ==
    [modelPath |-> directory.tempPath, tempPath |-> directory.tempPath]

\* fs.renameSync(tempPath, modelPath), tempPath existing
RenameSync(directory) ==
    [modelPath |-> directory.tempPath, tempPath |-> 0]

\* fs.unlinkSync(tempPath), tempPath existing
UnlinkTemp(directory) == [directory EXCEPT !.tempPath = 0]

\* Math.round((downloadedSize / totalSize) * 100)
Percent(downloaded, total) == (2 * 100 * downloaded + total) \div (2 * total)

\* a downloadModel that opens the write stream and issues the request before
\* it looks the model up
DownloadModelOpensFirst(d, name) ==
    /\ dl[d].st = "idle"
    /\ \A c \in Calls : c < d => dl[c].st # "idle"
    /\ CreateWriteStream(d)
    /\ dl' = [dl EXCEPT ![d] =
            IF name \notin Catalog
            THEN [IdleCall EXCEPT !.st = "failed", !.name = name, !.gets = 1,
                                  !.err = [kind |-> "unknown model", status |-> 0]]
            ELSE [IdleCall EXCEPT !.st = "request", !.name = name,
                                  !.fd = OpenTemp, !.gets = 1]]
    /\ UNCHANGED dlProgress
    /\ UNCHANGED del
    /\ UNCHANGED <<srvVars, trVars, olVars, rqVars>>

\* downloadModel(modelName, onProgress), up to the https.get call
DownloadModel(d, name) ==
    /\ dl[d].st = "idle"
    /\ \A c \in Calls : c < d => dl[c].st # "idle"
    /\ IF name \notin Catalog
       THEN /\ dl' = [dl EXCEPT ![d] =
                    [IdleCall EXCEPT !.st = "failed", !.name = name,
                                     !.err = [kind |-> "unknown model", status |-> 0]]]
            /\ UNCHANGED <<dir, files>>
       ELSE /\ CreateWriteStream(d)
            /\ dl' = [dl EXCEPT ![d] =
                    [IdleCall EXCEPT !.st = "request", !.name = name,
                                     !.fd = OpenTemp, !.gets = 1]]
    /\ UNCHANGED dlProgress
    /\ UNCHANGED del
    /\ UNCHANGED <<srvVars, trVars, olVars, rqVars>>

\* the https.get response callback of downloadModel
Response(d, r) ==
    /\ dl[d].st = "request"
    /\ IF r.status \in {301, 302} /\ r.location
       THEN \* file.close(); fs.unlinkSync(tempPath); this.downloadFromUrl(...)
            IF dir.tempPath = 0
            THEN /\ dl' = [dl EXCEPT ![d] = Ended(@, "threw", [kind |-> "ENOENT", status |-> 0])]
                 /\ UNCHANGED <<dir, files>>
            ELSE /\ dir' = [dir EXCEPT !.tempPath = FreshInode]
                 /\ files' = [files EXCEPT ![FreshInode] = {}]
                 /\ dl' = [dl EXCEPT ![d].st = "redirected", ![d].fd = FreshInode,
                                     ![d].gets = @ + 1]
       ELSE IF r.status # 200
       THEN \* file.close(); fs.unlinkSync(tempPath); reject(...)
            IF dir.tempPath = 0
            THEN /\ dl' = [dl EXCEPT ![d] = Ended(@, "threw", [kind |-> "ENOENT", status |-> 0])]
                 /\ UNCHANGED <<dir, files>>
            ELSE /\ dir' = UnlinkTemp(dir)
                 /\ dl' = [dl EXCEPT ![d] = Ended(@, "failed", [kind |-> "http", status |-> r.status])]
                 /\ UNCHANGED files
       ELSE /\ dl' = [dl EXCEPT ![d].st = "body", ![d].total = r.length]
            /\ UNCHANGED <<dir, files>>
    /\ UNCHANGED dlProgress
    /\ UNCHANGED del
    /\ UNCHANGED <<srvVars, trVars, olVars, rqVars>>

\* the https.get response callback of downloadFromUrl
RedirectResponse(d, r) ==
    /\ dl[d].st = "redirected"
    /\ IF r.status # 200
       THEN dl' = [dl EXCEPT ![d] = Ended(@, "failed", [kind |-> "http", status |-> r.status])]
       ELSE dl' = [dl EXCEPT ![d].st = "redirected body", ![d].total = r.length]
    /\ UNCHANGED <<dir, files, dlProgress>>
    /\ UNCHANGED del
    /\ UNCHANGED <<srvVars, trVars, olVars, rqVars>>

\* response.on('data') with response.pipe(file): one chunk is counted,
\* reported and written at the stream's own offset
Data(d) ==
    /\ dl[d].st \in {"body", "redirected body"}
    /\ dl[d].got < NChunks
    /\ dl' = [dl EXCEPT ![d].got = @ + 1]
    /\ files' = [files EXCEPT ![dl[d].fd] = @ \cup {dl[d].got + 1}]
    /\ dlProgress' =
          IF dl[d].total > 0
          THEN [dlProgress EXCEPT ![dl[d].name] =
                    Percent((dl[d].got + 1) * ChunkBytes, dl[d].total)]
          ELSE dlProgress
    /\ UNCHANGED dir
    /\ UNCHANGED del
    /\ UNCHANGED <<srvVars, trVars, olVars, rqVars>>

\* file.on('finish') of downloadModel: close, rename, resolve(true)
Finish(d) ==
    /\ dl[d].st = "body"
    /\ dl[d].got = NChunks
    /\ IF dir.tempPath = 0
       THEN /\ dl' = [dl EXCEPT ![d] = Ended(@, "threw", [kind |-> "ENOENT", status |-> 0])]
            /\ UNCHANGED dir
       ELSE /\ dir' = RenameSync(dir)
            /\ dl' = [dl EXCEPT ![d] = Ended(@, "resolved", NoError)]
    /\ UNCHANGED <<files, dlProgress>>
    /\ UNCHANGED del
    /\ UNCHANGED <<srvVars, trVars, olVars, rqVars>>

\* file.on('finish') of downloadFromUrl, then the .then() of downloadModel:
\* rename, resolve(true); a throwing rename goes to .catch(reject)
RedirectFinish(d) ==
    /\ dl[d].st = "redirected body"
    /\ dl[d].got = NChunks
    /\ IF dir.tempPath = 0
       THEN /\ dl' = [dl EXCEPT ![d] = Ended(@, "failed", [kind |-> "ENOENT", status |-> 0])]
            /\ UNCHANGED dir
       ELSE /\ dir' = RenameSync(dir)
            /\ dl' = [dl EXCEPT ![d] = Ended(@, "resolved", NoError)]
    /\ UNCHANGED <<files, dlProgress>>
    /\ UNCHANGED del
    /\ UNCHANGED <<srvVars, trVars, olVars, rqVars>>

\* request.on('error') of downloadModel
RequestError(d) ==
    /\ dl[d].st = "request"
    /\ dir' = IF dir.tempPath # 0 THEN UnlinkTemp(dir) ELSE dir
    /\ dl' = [dl EXCEPT ![d] = Ended(@, "failed", [kind |-> "network", status |-> 0])]
    /\ UNCHANGED <<files, dlProgress>>
    /\ UNCHANGED del
    /\ UNCHANGED <<srvVars, trVars, olVars, rqVars>>

\* .on('error') of downloadFromUrl
RedirectRequestError(d) ==
    /\ dl[d].st = "redirected"
    /\ dl' = [dl EXCEPT ![d] = Ended(@, "failed", [kind |-> "network", status |-> 0])]
    /\ UNCHANGED <<dir, files, dlProgress>>
    /\ UNCHANGED del
    /\ UNCHANGED <<srvVars, trVars, olVars, rqVars>>

\* a deleteModel that reports success without looking at the file
DeleteModelBlind(name) ==
    /\ del.n < MaxDeletes
    /\ del' = [n |-> del.n + 1, name |-> name, result |-> TRUE]
    /\ UNCHANGED <<dir, files, dl, dlProgress>>
    /\ UNCHANGED <<srvVars, trVars, olVars, rqVars>>

\* deleteModel(modelName): existsSync(modelPath), unlinkSync, return true;
\* otherwise return false. The data of the unlinked file is freed unless a
\* write stream still has the file open.
DeleteModel(name) ==
    /\ del.n < MaxDeletes
    /\ IF name \in Catalog /\ dir.modelPath # 0
       THEN /\ dir' = [dir EXCEPT !.modelPath = 0]
            /\ files' = IF \E d \in Calls : dl[d].fd = dir.modelPath
                        THEN files
                        ELSE [files EXCEPT ![dir.modelPath] = {}]
            /\ del' = [n |-> del.n + 1, name |-> name, result |-> TRUE]
       ELSE /\ del' = [n |-> del.n + 1, name |-> name, result |-> FALSE]
            /\ UNCHANGED <<dir, files>>
    /\ UNCHANGED <<dl, dlProgress>>
    /\ UNCHANGED <<srvVars, trVars, olVars, rqVars>>

\* getModelPath(modelName): the file name `ggml-${modelName}.bin`
getModelPath(name) == <<"ggml-", name, ".bin">>

\* `${modelPath}.tmp`
TempPath(name) == getModelPath(name) \o <<".tmp">>

\* fs.readdirSync(this.modelsDir): the names of the files in the directory
ReadDir ==
    {getModelPath(n) : n \in {m \in Catalog : dir.modelPath # 0}}
        \cup {TempPath(n) : n \in {m \in Catalog : dir.tempPath # 0}}

\* String.prototype.replace(part, ''): the first occurrence is removed
RemoveFirst(file, part) ==
    IF \E i \in 1..Len(file) : file[i] = part
    THEN LET i == CHOOSE j \in 1..Len(file) :
                    file[j] = part /\ \A h \in 1..(j - 1) : file[h] # part
         IN  SubSeq(file, 1, i - 1) \o SubSeq(file, i + 1, Len(file))
    ELSE file

\* a listing that takes every file whose name starts with 'ggml-'
GetDownloadedModelsAnyGgml ==
    {RemoveFirst(RemoveFirst(file, "ggml-"), ".bin") :
        file \in {f \in ReadDir : f[1] = "ggml-"}}

\* getDownloadedModels(): the names of the files that start with 'ggml-' and
\* end with '.bin', with those two parts removed
getDownloadedModels ==
    {RemoveFirst(RemoveFirst(file, "ggml-"), ".bin") :
        file \in {f \in ReadDir : f[1] = "ggml-" /\ f[Len(f)] = ".bin"}}

NextDownload ==
    \/ \E n \in Catalog : DeleteModel(n)
    \/ \E d \in Calls, n \in ModelNames : DownloadModel(d, n)
    \/ \E d \in Calls, r \in Responses : Response(d, r)
    \/ \E d \in Calls, r \in Responses : RedirectResponse(d, r)
    \/ \E d \in Calls : Data(d)
    \/ \E d \in Calls : Finish(d)
    \/ \E d \in Calls : RedirectFinish(d)
    \/ \E d \in Calls : RequestError(d)
    \/ \E d \in Calls : RedirectRequestError(d)

----------------------------------------------------------------------------
(* WhisperService: transcribe and cancelTranscription (electron/whisper.ts) *)

TrCalls == 1..MaxTr
FilePaths == {"song.mp3", "clip.mp4"}       \* files that exist
NoSuchPath == "gone.wav"                    \* a path with no file
SUPPORTED_FORMATS == {".flac", ".mp3", ".ogg", ".wav"}
\* path.extname(filePath).toLowerCase()
ExtName(path) ==
    CASE path = "clip.mp4" -> ".mp4"
      [] path = "song.mp3" -> ".mp3"
      [] OTHER -> ".wav"
Percents == {50, 250}                         \* "progress = N%" values printed

\* a check that sends every file through the conversion
ConvertsEverything(path) == TRUE

needsConversion(path) == ExtName(path) \notin SUPPORTED_FORMATS

\* fs.existsSync(this.getModelPath(modelName))
ModelDownloaded(name) == name \in Catalog /\ dir.modelPath # 0

IdleTr == [st |-> "idle", path |-> "", signalled |-> FALSE, promise |-> "none",
           wav |-> "none", converted |-> 0, outputBase |-> 0]

\* Date.now(): the millisecond the clock shows
DateNow == now

InitTranscribe ==
    /\ activeTranscriptions = [f \in FilePaths |-> 0]
    /\ tr = [c \in TrCalls |-> IdleTr]
    /\ trCancel = [n |-> 0, path |-> "", result |-> FALSE]
    /\ trProgress = [f \in FilePaths |-> -1]
    /\ jobs = [c \in TrCalls |-> "none"]
    /\ now = 1

\* spawn(this.binaryPath, args); this.activeTranscriptions.set(filePath, ...)
SpawnWhisper(c, path) ==
    activeTranscriptions' = [activeTranscriptions EXCEPT ![path] = c]

\* useTranscription.transcribe: the status of the job once the IPC call has
\* the given outcome ('transcribing' until it settles)
JobStatus(status, promise) ==
    CASE promise = "pending" -> status
      [] promise = "resolved" -> "completed"
      [] OTHER -> "error"

\* useTranscription.transcribe -> ipc 'transcribe' ->
\* transcribe(filePath, options), up to its first suspension
Transcribe(c, path, model) ==
    /\ tr[c].st = "idle"
    /\ \A b \in TrCalls : b < c => tr[b].st # "idle"
    /\ IF ~ModelDownloaded(model)
       THEN /\ tr' = [tr EXCEPT ![c] = [IdleTr EXCEPT !.st = "ended", !.path = path,
                                                      !.promise = "model not downloaded"]]
            /\ UNCHANGED activeTranscriptions
       ELSE IF path \notin FilePaths
       THEN /\ tr' = [tr EXCEPT ![c] = [IdleTr EXCEPT !.st = "ended", !.path = path,
                                                      !.promise = "file not found"]]
            /\ UNCHANGED activeTranscriptions
       ELSE IF needsConversion(path)
       THEN \* convertToWav: outputPath = whisper-converted-${Date.now()}.wav
            /\ tr' = [tr EXCEPT ![c] = [IdleTr EXCEPT !.st = "converting",
                                           !.path = path, !.promise = "pending",
                                           !.converted = DateNow]]
            /\ UNCHANGED activeTranscriptions
       ELSE \* outputBase = whisper-${Date.now()}
            /\ tr' = [tr EXCEPT ![c] = [IdleTr EXCEPT !.st = "running",
                                           !.path = path, !.promise = "pending",
                                           !.outputBase = DateNow]]
            /\ SpawnWhisper(c, path)
    /\ jobs' = [jobs EXCEPT ![c] = JobStatus("transcribing", tr'[c].promise)]
    /\ UNCHANGED <<trCancel, trProgress, now>>
    /\ UNCHANGED <<srvVars, dlVars, olVars, rqVars>>

\* a transcribe that goes on to the recognition process whether or not the
\* conversion succeeded
ConvertSettledSpawnsAnyway(c, ok) ==
    /\ tr[c].st = "converting"
    /\ tr' = [tr EXCEPT ![c].st = "running", ![c].outputBase = DateNow,
                        ![c].wav = IF ok THEN "present" ELSE "none"]
    /\ SpawnWhisper(c, tr[c].path)
    /\ jobs' = [jobs EXCEPT ![c] = JobStatus(@, tr'[c].promise)]
    /\ UNCHANGED <<trCancel, trProgress, now>>
    /\ UNCHANGED <<srvVars, dlVars, olVars, rqVars>>

\* convertToWav settles (ffmpeg 'close' or 'error'), transcribe resumes
ConvertSettled(c, ok) ==
    /\ tr[c].st = "converting"
    /\ IF ok
       THEN \* outputBase = whisper-${Date.now()}
            /\ tr' = [tr EXCEPT ![c].st = "running", ![c].wav = "present",
                                ![c].outputBase = DateNow]
            /\ SpawnWhisper(c, tr[c].path)
       ELSE /\ \E left \in {"none", "partial"} :
                 tr' = [tr EXCEPT ![c].st = "ended", ![c].wav = left,
                                  ![c].converted = 0,
                                  ![c].promise = "conversion failed"]
            /\ UNCHANGED activeTranscriptions
    /\ jobs' = [jobs EXCEPT ![c] = JobStatus(@, tr'[c].promise)]
    /\ UNCHANGED <<trCancel, trProgress, now>>
    /\ UNCHANGED <<srvVars, dlVars, olVars, rqVars>>

\* whisperProcess.stdout.on('data') with a "progress = N%" match
WhisperStdout(c, pct) ==
    /\ tr[c].st = "running"
    /\ trProgress' = [trProgress EXCEPT ![tr[c].path] = pct]
    /\ UNCHANGED <<activeTranscriptions, tr, trCancel, jobs, now>>
    /\ UNCHANGED <<srvVars, dlVars, olVars, rqVars>>

\* a cleanup that leaves the converted file where it is
CleanupKeeps(wav) == wav

\* cleanup(): unlink the converted file if there is one
Cleanup(wav) == IF wav = "present" THEN "deleted" ELSE wav

\* whisperProcess.on('close')
WhisperClose(c, code) ==
    /\ tr[c].st \in {"running", "spawn failed"}
    /\ code = "signal" => tr[c].signalled
    /\ activeTranscriptions' = [activeTranscriptions EXCEPT ![tr[c].path] = 0]
    /\ tr' = [tr EXCEPT ![c].st = "ended", ![c].signalled = FALSE,
                        ![c].converted = 0, ![c].outputBase = 0,
                        ![c].wav = Cleanup(@),
                        ![c].promise = Settle(@, IF code = "0" THEN "resolved"
                                                 ELSE "transcription failed")]
    /\ jobs' = IF tr[c].promise = "pending"
               THEN [jobs EXCEPT ![c] = JobStatus(@, tr'[c].promise)]
               ELSE jobs
    /\ UNCHANGED <<trCancel, trProgress, now>>
    /\ UNCHANGED <<srvVars, dlVars, olVars, rqVars>>

\* whisperProcess.on('error'): the binary could not be started
WhisperError(c) ==
    /\ tr[c].st = "running"
    /\ ~tr[c].signalled
    /\ activeTranscriptions' = [activeTranscriptions EXCEPT ![tr[c].path] = 0]
    /\ tr' = [tr EXCEPT ![c].st = "spawn failed", ![c].wav = Cleanup(@),
                        ![c].promise = Settle(@, "failed to start")]
    /\ jobs' = [jobs EXCEPT ![c] = JobStatus(@, tr'[c].promise)]
    /\ UNCHANGED <<trCancel, trProgress, now>>
    /\ UNCHANGED <<srvVars, dlVars, olVars, rqVars>>

\* cancelTranscription that reports success whether or not the registry
\* has an entry for the path
CancelAlwaysTrue(path) ==
    /\ trCancel.n < MaxCancels
    /\ IF path \in FilePaths /\ activeTranscriptions[path] # 0
       THEN /\ tr' = [tr EXCEPT ![activeTranscriptions[path]].signalled = TRUE]
            /\ activeTranscriptions' = [activeTranscriptions EXCEPT ![path] = 0]
       ELSE UNCHANGED <<tr, activeTranscriptions>>
    /\ trCancel' = [n |-> trCancel.n + 1, path |-> path, result |-> TRUE]
    /\ jobs' = [c \in TrCalls |-> IF jobs[c] # "none" /\ tr[c].path = path
                                  THEN "cancelled" ELSE jobs[c]]
    /\ UNCHANGED <<trProgress, now>>
    /\ UNCHANGED <<srvVars, dlVars, olVars, rqVars>>

\* useTranscription.cancelTranscription -> ipc 'cancel-transcription' ->
\* cancelTranscription(filePath); the hook then marks every job of the path
CancelTranscription(path) ==
    /\ trCancel.n < MaxCancels
    /\ IF path \in FilePaths /\ activeTranscriptions[path] # 0
       THEN /\ tr' = [tr EXCEPT ![activeTranscriptions[path]].signalled = TRUE]
            /\ activeTranscriptions' = [activeTranscriptions EXCEPT ![path] = 0]
            /\ trCancel' = [n |-> trCancel.n + 1, path |-> path, result |-> TRUE]
       ELSE /\ trCancel' = [n |-> trCancel.n + 1, path |-> path, result |-> FALSE]
            /\ UNCHANGED <<tr, activeTranscriptions>>
    /\ jobs' = [c \in TrCalls |-> IF jobs[c] # "none" /\ tr[c].path = path
                                  THEN "cancelled" ELSE jobs[c]]
    /\ UNCHANGED <<trProgress, now>>
    /\ UNCHANGED <<srvVars, dlVars, olVars, rqVars>>

\* the system clock moves on to the next millisecond
Tick ==
    /\ now < MaxTime
    /\ now' = now + 1
    /\ UNCHANGED <<activeTranscriptions, tr, trCancel, trProgress, jobs>>
    /\ UNCHANGED <<srvVars, dlVars, olVars, rqVars>>

NextTranscribe ==
    \/ \E c \in TrCalls, f \in FilePaths \cup {NoSuchPath}, m \in ModelNames :
            Transcribe(c, f, m)
    \/ \E c \in TrCalls, ok \in BOOLEAN : ConvertSettled(c, ok)
    \/ \E c \in TrCalls, pct \in Percents : WhisperStdout(c, pct)
    \/ \E c \in TrCalls, code \in {"0", "1", "signal"} : WhisperClose(c, code)
    \/ \E c \in TrCalls : WhisperError(c)
    \/ \E f \in FilePaths \cup {NoSuchPath} : CancelTranscription(f)

\* transcriptions of existing files with an installed model, with the clock
NextTempPaths ==
    \/ Tick
    \/ \E c \in TrCalls, f \in FilePaths : Transcribe(c, f, "tiny")
    \/ \E c \in TrCalls, ok \in BOOLEAN : ConvertSettled(c, ok)
    \/ \E c \in TrCalls, code \in {"0", "1"} : WhisperClose(c, code)
    \/ \E c \in TrCalls : WhisperError(c)

----------------------------------------------------------------------------
(* OllamaService: generateStream and pullModel over a newline-delimited     *)
(* JSON response. The response is a sequence of bytes that arrives in data  *)
(* chunks cut at any byte; a line is "{", a body, "}".                      *)

\* the lines a server may send, as bytes
ResponseA == <<"{", "a", "}">>              \* {"response":"a"} / {"status":"a"}
ResponseEacute == <<"{", "c3", "a9", "}">>  \* the same with the two-byte text U+00E9
DoneLine == <<"{", "D", "}">>               \* {"done":true} / {"status":"success"}
ErrorLine == <<"{", "E", "}">>              \* {"error":"..."}
Malformed == <<"{", "a">>                   \* a line that is not JSON

LineKinds == {ResponseA, ResponseEacute, DoneLine, ErrorLine, Malformed}

LineSeqs == UNION {[1..n -> LineKinds] : n \in 1..MaxLines}

\* the bytes of the response: the lines joined by "\n", the last one
\* followed by "\n" or not
RECURSIVE Bytes(_, _)
Bytes(lines, terminated) ==
    IF lines = <<>> THEN <<>>
    ELSE IF Len(lines) = 1
         THEN Head(lines) \o (IF terminated THEN <<"\n">> ELSE <<>>)
         ELSE Head(lines) \o <<"\n">> \o Bytes(Tail(lines), terminated)

\* chunk.toString(): UTF-8 decoding of one Buffer on its own; a byte that is
\* not part of a complete sequence inside the Buffer becomes U+FFFD
RECURSIVE Decode(_)
Decode(b) ==
    IF b = <<>> THEN <<>>
    ELSE IF Head(b) = "c3" /\ Len(b) >= 2 /\ b[2] = "a9"
         THEN <<"eacute">> \o Decode(Tail(Tail(b)))
    ELSE IF Head(b) \in {"c3", "a9"}
         THEN <<"FFFD">> \o Decode(Tail(b))
    ELSE <<Head(b)>> \o Decode(Tail(b))

\* buffer.split('\n')
RECURSIVE Split(_)
Split(text) ==
    IF \A i \in 1..Len(text) : text[i] # "\n" THEN <<text>>
    ELSE LET i == CHOOSE j \in 1..Len(text) :
                    text[j] = "\n" /\ \A h \in 1..(j - 1) : text[h] # "\n"
         IN  <<SubSeq(text, 1, i - 1)>> \o Split(SubSeq(text, i + 1, Len(text)))

\* JSON.parse(line): ok = FALSE when it throws
ParseLine(line) ==
    IF /\ Len(line) >= 3 /\ line[1] = "{" /\ line[Len(line)] = "}"
       /\ \A i \in 2..(Len(line) - 1) : line[i] \notin {"{", "}"}
    THEN [ok |-> TRUE, body |-> SubSeq(line, 2, Len(line) - 1)]
    ELSE [ok |-> FALSE, body |-> <<>>]

NoStream == [call |-> "none", lines |-> <<>>, terminated |-> TRUE, rest |-> <<>>,
             buffer |-> <<>>, fullResponse |-> <<>>, delivered |-> <<>>,
             promise |-> "none", result |-> <<>>, ended |-> FALSE]

\* the state when the request has been written and the response begins
StartStream(call, lines, terminated) ==
    [NoStream EXCEPT !.call = call, !.lines = lines, !.terminated = terminated,
                     !.rest = Bytes(lines, terminated), !.promise = "pending"]

InitOllama == stream = NoStream

InitStream ==
    stream \in {StartStream(call, lines, t) :
                    call \in {"generateStream", "pullModel"},
                    lines \in LineSeqs, t \in BOOLEAN}

\* generateStream, res.on('data'): the loop over the complete lines
RECURSIVE GenerateLines(_, _)
GenerateLines(lines, s) ==
    IF lines = <<>> THEN s
    ELSE LET data == ParseLine(Head(lines)) IN
         IF ~data.ok THEN GenerateLines(Tail(lines), s)
         ELSE IF data.body = <<"D">>
              THEN [s EXCEPT !.promise = Settle(@, "resolved"),
                             !.result = IF s.promise = "pending"
                                        THEN s.fullResponse ELSE @]
         ELSE IF data.body = <<"E">>
              THEN [s EXCEPT !.promise = Settle(@, "rejected")]
         ELSE GenerateLines(Tail(lines),
                    [s EXCEPT !.fullResponse = @ \o data.body,
                              !.delivered = Append(@, data.body)])

\* pullModel, res.on('data'): the loop over the complete lines
RECURSIVE PullLines(_, _)
PullLines(lines, s) ==
    IF lines = <<>> THEN s
    ELSE LET data == ParseLine(Head(lines)) IN
         IF ~data.ok THEN PullLines(Tail(lines), s)
         ELSE IF data.body = <<"D">>
              THEN [s EXCEPT !.delivered = Append(@, <<"success">>),
                             !.promise = Settle(@, "resolved")]
         ELSE IF data.body = <<"E">>
              THEN [s EXCEPT !.delivered = Append(@, <<"downloading">>),
                             !.promise = Settle(@, "rejected")]
         ELSE PullLines(Tail(lines), [s EXCEPT !.delivered = Append(@, data.body)])

\* buffer += chunk.toString(); lines = buffer.split('\n'); buffer = lines.pop()
Received(s, k) ==
    LET parts == Split(s.buffer \o Decode(SubSeq(s.rest, 1, k)))
    IN  [lines |-> SubSeq(parts, 1, Len(parts) - 1),
         s |-> [s EXCEPT !.buffer = parts[Len(parts)],
                         !.rest = SubSeq(s.rest, k + 1, Len(s.rest))]]

\* generateStream: res.on('data') with the next k bytes
GenerateData(k) ==
    /\ stream.call = "generateStream" /\ ~stream.ended
    /\ k \in 1..Len(stream.rest)
    /\ stream' = GenerateLines(Received(stream, k).lines, Received(stream, k).s)
    /\ UNCHANGED <<srvVars, dlVars, trVars, rqVars>>

\* generateStream: res.on('end')
GenerateEnd ==
    /\ stream.call = "generateStream" /\ ~stream.ended
    /\ stream.rest = <<>>
    /\ stream' = [stream EXCEPT !.ended = TRUE,
                                !.promise = Settle(@, "resolved"),
                                !.result = IF stream.promise = "pending"
                                           THEN stream.fullResponse ELSE @]
    /\ UNCHANGED <<srvVars, dlVars, trVars, rqVars>>

\* pullModel: res.on('data') with the next k bytes
PullData(k) ==
    /\ stream.call = "pullModel" /\ ~stream.ended
    /\ k \in 1..Len(stream.rest)
    /\ stream' = PullLines(Received(stream, k).lines, Received(stream, k).s)
    /\ UNCHANGED <<srvVars, dlVars, trVars, rqVars>>

\* pullModel: res.on('end'), which parses what is left in the buffer
PullEnd ==
    /\ stream.call = "pullModel" /\ ~stream.ended
    /\ stream.rest = <<>>
    /\ LET data == ParseLine(stream.buffer) IN
       stream' = [stream EXCEPT !.ended = TRUE,
                     !.promise = Settle(@, IF data.ok /\ data.body = <<"E">>
                                           THEN "rejected" ELSE "resolved")]
    /\ UNCHANGED <<srvVars, dlVars, trVars, rqVars>>

MaxBytes == MaxLines * 5

NextStream ==
    \/ \E k \in 1..MaxBytes : GenerateData(k)
    \/ GenerateEnd
    \/ \E k \in 1..MaxBytes : PullData(k)
    \/ PullEnd

----------------------------------------------------------------------------
(* TTSService / VideoAnalyzerService: the domain calls, each a guard on     *)
(* isServerReady followed by one makeRequest (electron/tts.ts,              *)
(* electron/video-analyzer.ts)                                              *)

Reqs == 1..MaxReq

Methods == {"downloadModel", "loadModel", "cloneVoice", "deleteVoice",
            "generateSpeech", "analyzeVideo", "quickAnalyze"}

\* the calls that check fs.existsSync on their input file first
ChecksFile(method) == method \in {"cloneVoice", "analyzeVideo", "quickAnalyze"}

\* the calls that also need the payload field of the response body
NeedsPayload(method) ==
    method \in {"cloneVoice", "generateSpeech", "analyzeVideo", "quickAnalyze"}

\* the calls of VideoAnalyzerService, whose makeRequest sets a timeout
HasTimeout(method) == method \in {"analyzeVideo", "quickAnalyze"}

\* response bodies: text that does not parse, or a JSON object
NotJson == [json |-> FALSE, success |-> FALSE, payload |-> FALSE, error |-> <<>>]
Bodies ==
    {NotJson} \cup
    [json : {TRUE}, success : BOOLEAN, payload : BOOLEAN, error : {<<>>, <<"boom">>}]

\* error messages
NotRunningMessage == <<"server not running. Start the server first.">>
FileNotFoundMessage == <<"file not found">>
InvalidJsonMessage == <<"Invalid JSON response">>
TimeoutMessage == <<"Request timeout">>
RefusedMessage == <<"connect ECONNREFUSED">>
DefaultMessage(method) == <<"failed", method>>

NoOutcome == [kind |-> "none", value |-> FALSE, message |-> <<>>]
Threw(message) == [kind |-> "error", value |-> FALSE, message |-> message]
Returned(value) == [kind |-> "value", value |-> value, message |-> <<>>]

IdleReq == [st |-> "idle", method |-> "", requests |-> 0, transport |-> "none",
            body |-> NotJson, outcome |-> NoOutcome]

InitRequest == rq = [c \in Reqs |-> IdleReq]

\* a domain call that issues its request before it looks at the ready flag
DomainCallRequestsFirst(c, method, exists) ==
    /\ rq[c].st = "idle"
    /\ \A b \in Reqs : b < c => rq[b].st # "idle"
    /\ rq' = [rq EXCEPT ![c] =
          IF ~isServerReady
          THEN [IdleReq EXCEPT !.st = "settled", !.method = method, !.requests = 1,
                               !.outcome = Threw(NotRunningMessage)]
          ELSE IF ChecksFile(method) /\ ~exists
          THEN [IdleReq EXCEPT !.st = "settled", !.method = method,
                               !.outcome = Threw(FileNotFoundMessage)]
          ELSE [IdleReq EXCEPT !.st = "requested", !.method = method,
                               !.requests = 1]]
    /\ UNCHANGED <<srvVars, dlVars, trVars, olVars>>

\* a domain call up to its await of makeRequest
DomainCall(c, method, exists) ==
    /\ rq[c].st = "idle"
    /\ \A b \in Reqs : b < c => rq[b].st # "idle"
    /\ rq' = [rq EXCEPT ![c] =
          IF ~isServerReady
          THEN [IdleReq EXCEPT !.st = "settled", !.method = method,
                               !.outcome = Threw(NotRunningMessage)]
          ELSE IF ChecksFile(method) /\ ~exists
          THEN [IdleReq EXCEPT !.st = "settled", !.method = method,
                               !.outcome = Threw(FileNotFoundMessage)]
          ELSE [IdleReq EXCEPT !.st = "requested", !.method = method,
                               !.requests = 1]]
    /\ UNCHANGED <<srvVars, dlVars, trVars, olVars>>

\* what the call does with the parsed body once makeRequest has resolved
Answer(method, body) ==
    IF method = "deleteVoice" THEN Returned(body.success)
    ELSE IF ~body.success \/ (NeedsPayload(method) /\ ~body.payload)
    THEN Threw(IF body.error # <<>> THEN body.error ELSE DefaultMessage(method))
    ELSE Returned(TRUE)

\* makeRequest, res.on('end'): JSON.parse(body), then the caller's checks
ResponseEnd(c, body) ==
    /\ rq[c].st = "requested"
    /\ rq' = [rq EXCEPT ![c].st = "settled", ![c].transport = "answered",
                        ![c].body = body,
                        ![c].outcome = IF body.json THEN Answer(rq[c].method, body)
                                       ELSE Threw(InvalidJsonMessage)]
    /\ UNCHANGED <<srvVars, dlVars, trVars, olVars>>

\* makeRequest, req.on('error'): nothing listens on the port
ConnectionRefused(c) ==
    /\ rq[c].st = "requested"
    /\ rq' = [rq EXCEPT ![c].st = "settled", ![c].transport = "refused",
                        ![c].outcome = Threw(RefusedMessage)]
    /\ UNCHANGED <<srvVars, dlVars, trVars, olVars>>

\* makeRequest of VideoAnalyzerService, req.on('timeout')
RequestTimeout(c) ==
    /\ rq[c].st = "requested"
    /\ HasTimeout(rq[c].method)
    /\ rq' = [rq EXCEPT ![c].st = "settled", ![c].transport = "timeout",
                        ![c].outcome = Threw(TimeoutMessage)]
    /\ UNCHANGED <<srvVars, dlVars, trVars, olVars>>

NextRequest ==
    \/ \E c \in Reqs, m \in Methods, exists \in BOOLEAN : DomainCall(c, m, exists)
    \/ \E c \in Reqs, body \in Bodies : ResponseEnd(c, body)
    \/ \E c \in Reqs : ConnectionRefused(c)
    \/ \E c \in Reqs : RequestTimeout(c)

----------------------------------------------------------------------------
Init == InitServer /\ InitDownload /\ InitTranscribe /\ InitOllama /\ InitRequest

\* the state after the model "tiny" has been downloaded
InitModelInstalled ==
    /\ InitServer
    /\ InitTranscribe
    /\ dir = [modelPath |-> 1, tempPath |-> 0]
    /\ files = [i \in Inodes |-> IF i = 1 THEN 1..NChunks ELSE {}]
    /\ dl = [d \in Calls |-> IdleCall]
    /\ dlProgress = [n \in Catalog |-> -1]
    /\ del = [n |-> 0, name |-> "", result |-> FALSE]
    /\ InitOllama
    /\ InitRequest

\* a streaming call has been issued and its response is about to arrive
InitStreaming ==
    InitServer /\ InitDownload /\ InitTranscribe /\ InitStream /\ InitRequest

\* the state after startServer has resolved: the process has printed the
\* readiness line and the facade holds it
InitServerReady ==
    /\ serverProcess = 1
    /\ isServerReady = TRUE
    /\ proc = [p \in Pids |-> IF p = 1
                               THEN [NoProc EXCEPT !.st = "running",
                                                   !.stdout = ReadySubstring]
                               ELSE NoProc]
    /\ startCall = [p \in Pids |-> IF p = 1
                                    THEN [promise |-> "resolved", timer |-> "armed",
                                          delay |-> StartupTimeoutMs, reason |-> <<>>]
                                    ELSE NoCall]
    /\ printed = 1
    /\ quit = FALSE

\* the facade before or after a successful startServer
InitFacade ==
    /\ InitServer \/ InitServerReady
    /\ InitDownload /\ InitTranscribe /\ InitOllama /\ InitRequest

SpecServer == Init /\ [][NextServer]_vars

SpecDownload == Init /\ [][NextDownload]_vars

SpecTranscribe == InitModelInstalled /\ [][NextTranscribe]_vars

\* SpecTranscribe leaves the clock where it is: the claims checked under it
\* do not depend on the names of the temporary files. SpecTempPaths lets it run.
SpecTempPaths == InitModelInstalled /\ [][NextTempPaths]_vars

SpecStream == InitStreaming /\ [][NextStream]_vars

SpecRequest == InitFacade /\ [][NextRequest]_vars

----------------------------------------------------------------------------
(* Claims about the server facades, checked under SpecServer *)

\* the start call that spawned p is still waiting for readiness and the
\* facade holds p
StartInFlight(p) ==
    /\ startCall[p].promise = "pending"
    /\ serverProcess = p
    /\ proc[p].st = "running"

\* the readiness substring has appeared in what p printed on one stream
ReadyPrinted(p) ==
    \/ Includes(proc[p].stdout, ReadySubstring)
    \/ Includes(proc[p].stderr, ReadySubstring)

\* C1: while a startServer call is still waiting for readiness, a further
\* startServer call spawns no process: no step taken with a start in flight
\* turns an unused pid into a spawned process.
C1_NoDuplicateSpawn ==
    [][(\E p \in Pids : StartInFlight(p))
        => \A q \in Pids : proc[q].st = "none" => proc'[q].st = "none"]_vars

\* C8: when the startup timer of a call runs and the call's process is still
\* running without ever having printed the readiness substring, the call
\* fails with the timeout error, the process has been sent SIGTERM, and the
\* facade neither holds it nor reports a running server.
C8_TimeoutKillsItsProcess ==
    [][\A p \in Pids :
        ( /\ startCall[p].timer = "armed" /\ startCall'[p].timer = "fired"
          /\ startCall[p].delay = StartupTimeoutMs
          /\ proc[p].st = "running"
          /\ ~ReadyPrinted(p) )
        => ( /\ startCall'[p].promise = "timeout"
             /\ proc'[p].signalled
             /\ serverProcess' # p
             /\ ~isServerReady' )]_vars

\* C9: the step in which the readiness substring becomes part of the output
\* of a process whose start call is pending resolves that call, however the
\* output was cut into chunks.
C9_ReadyHoweverChunked ==
    [][\A p \in Pids :
        ( /\ startCall[p].promise = "pending"
          /\ proc[p].st = "running"
          /\ ~ReadyPrinted(p)
          /\ ReadyPrinted(p)' )
        => ( startCall'[p].promise = "resolved" /\ isServerReady' )]_vars

\* C18: the before-quit handler leaves every backing process that was
\* spawned and has not exited with the termination signal sent, whether its
\* start is still waiting for readiness or it is ready.
C18_QuitSignalsEveryProcess ==
    [][(~quit /\ quit')
        => \A p \in Pids : proc[p].st = "running" => proc'[p].signalled]_vars

\* C20: whenever isServerReady is true the facade holds the handle of a
\* spawned process that has printed the readiness substring, has not exited
\* and has not been stopped.
C20_ReadyMeansLiveProcess ==
    isServerReady =>
        /\ serverProcess \in Pids
        /\ proc[serverProcess].st = "running"
        /\ ReadyPrinted(serverProcess)
        /\ ~proc[serverProcess].signalled

\* C21: the startup timer of the call that spawned p terminates no process
\* other than p, and p only if p has not printed the readiness substring.
C21_TimerOwnsItsProcess ==
    [][\A p \in Pids :
        (startCall[p].timer = "armed" /\ startCall'[p].timer = "fired")
        => \A q \in Pids :
              (proc[q].st = "running" /\ ~proc[q].signalled /\ proc'[q].signalled)
              => (q = p /\ ~ReadyPrinted(p))]_vars

\* C22: the step that handles the exit of a process which the facade held
\* as Ready, and which had not been sent a signal, leaves the ready flag
\* false and the handle cleared, so that the guard of startServer takes
\* the spawning branch.
C22_CrashClearsFacade ==
    [][\A p \in Pids :
        ( /\ isServerReady /\ serverProcess = p
          /\ proc[p].st = "running" /\ ~proc[p].signalled
          /\ proc'[p].st = "closed" )
        => ( /\ ~isServerReady'
             /\ serverProcess' = 0
             /\ ~(serverProcess' # 0 /\ isServerReady') )]_vars

\* a process whose start had resolved has exited, and a startServer call
\* made afterwards has spawned a new process that the facade now holds
C22_Witness ==
    \E p, q \in Pids :
        /\ proc[p].st = "closed" /\ startCall[p].promise = "resolved"
        /\ q > p /\ proc[q].st = "running" /\ serverProcess = q
        /\ startCall[q].promise = "pending"
        /\ ~isServerReady

C24_StopFireAndForget ==
    [][/\ \A q \in Pids :
            (~proc[q].signalled /\ proc'[q].signalled)
            => /\ serverProcess = q
               /\ serverProcess' = 0
               /\ ~isServerReady'
               /\ proc'[q].st = "running"
               /\ \A r \in Pids \ {q} : proc'[r] = proc[r]
       /\ ( /\ serverProcess = 0
            /\ proc' = proc /\ startCall' = startCall
            /\ printed' = printed /\ quit' = quit )
          => isServerReady' = isServerReady]_vars

\* stopServer has run on a ready facade before the quit: the process is
\* signalled and still running, the handle and the ready flag are cleared
C24_Witness ==
    \E q \in Pids :
        /\ proc[q].st = "running" /\ proc[q].signalled
        /\ startCall[q].promise = "resolved" /\ startCall[q].timer = "armed"
        /\ serverProcess = 0 /\ ~isServerReady /\ ~quit

\* C35: the step that handles the exit of a process other than the one the
\* facade holds leaves the handle and the ready flag as they are.
C35_CloseAttributedToItsProcess ==
    [][\A p \in Pids :
        ( /\ proc[p].st = "running" /\ proc'[p].st = "closed"
          /\ serverProcess # 0 /\ serverProcess # p )
        => (serverProcess' = serverProcess /\ isServerReady' = isServerReady)]_vars

----------------------------------------------------------------------------
(* Claims about model downloads, checked under SpecDownload *)

\* C3: per model name, the percent values of the progress events sent to
\* the UI never decrease.
C3_ProgressNonDecreasing ==
    [][\A n \in Catalog :
        dlProgress[n] # -1 => dlProgress'[n] >= dlProgress[n]]_vars

\* C4: the step in which a downloadModel call resolves true leaves the model
\* file at the final path and no file at the .tmp path.
C4_ResolvedMeansInstalled ==
    [][\A d \in Calls :
        (dl[d].st # "resolved" /\ dl'[d].st = "resolved")
        => (dir'.modelPath # 0 /\ dir'.tempPath = 0)]_vars

\* one call has resolved directly and one through the followed redirect
C4_Witness ==
    /\ \E d \in Calls : dl[d].st = "resolved" /\ dl[d].gets = 1
    /\ \E d \in Calls : dl[d].st = "resolved" /\ dl[d].gets = 2
    /\ dir.modelPath # 0 /\ dir.tempPath = 0

\* C5: the step in which a call fails on an HTTP status other than 200 puts
\* that status in the error and leaves neither the .tmp file nor a file at
\* the final path.
C5_HttpErrorLeavesNothing ==
    [][\A d \in Calls :
        (dl[d].st \in {"request", "redirected"} /\ dl'[d].st = "failed"
            /\ dl'[d].err.kind = "http")
        => ( /\ dl'[d].err.status \notin {0, 200}
             /\ dir'.tempPath = 0
             /\ dir'.modelPath = 0 )]_vars

\* C6: a file at the final path holds the whole body and no write stream
\* still has it open.
C6_FinalFileComplete ==
    dir.modelPath # 0 =>
        /\ files[dir.modelPath] = 1..NChunks
        /\ \A d \in Calls : dl[d].fd # dir.modelPath

IsRounded(p, downloaded, total) ==
    /\ 2 * total * p - total <= 2 * 100 * downloaded
    /\ 2 * 100 * downloaded < 2 * total * p + total

\* the call is receiving a body that was announced with a Content-Length
Receiving(d) == dl[d].st \in {"body", "redirected body"} /\ dl[d].total > 0

\* C16: a chunk received by a download with Content-Length = total sends
\* the progress event round(cumulative / total * 100); a chunk of a
\* download without Content-Length sends none; and the file appears at the
\* final path only when every download that reports progress has received
\* its last chunk.
C16_ProgressPerChunk ==
    [][/\ \A d \in Calls :
            (dl[d].st \in {"body", "redirected body"} /\ dl'[d].got = dl[d].got + 1)
            => IF dl[d].total > 0
               THEN IsRounded(dlProgress'[dl[d].name],
                              dl'[d].got * ChunkBytes, dl[d].total)
               ELSE dlProgress' = dlProgress
       /\ (dir.modelPath = 0 /\ dir'.modelPath # 0)
            => \A d \in Calls : Receiving(d) => dl[d].got = NChunks]_vars

\* C19: a deleteModel call for an installed model removes the file and
\* returns true; a call for a model that is not present returns false and
\* changes nothing on disk; and after either, the model is not installed, so
\* that a second call in a row returns false.
C19_DeleteIdempotent ==
    [][\A name \in Catalog :
        (del'.n = del.n + 1 /\ del'.name = name)
        => /\ IF name \in Catalog /\ dir.modelPath # 0
              THEN del'.result = TRUE /\ dir'.modelPath = 0
              ELSE del'.result = FALSE /\ dir' = dir /\ files' = files
           /\ ~ModelDownloaded(name)']_vars

\* a model was downloaded, and of two deleteModel calls for it the latest
\* returned false: the first one removed it
C19_Witness ==
    /\ del.n = 2 /\ del.name = "tiny" /\ ~del.result
    /\ \E d \in Calls : dl[d].st = "resolved"
    /\ dir.modelPath = 0

\* C28: a first response that is a 301/302 with a Location header makes the
\* call issue exactly one more GET; the response to that GET issues none,
\* whatever its status, and a status other than 200 (a second redirect
\* included) fails the call with that status. No call issues a third GET.
C28_OneRedirectHop ==
    [][\A d \in Calls :
        /\ dl'[d].gets <= 2
        /\ \A r \in Responses :
              (Response(d, r) /\ r.status \in {301, 302} /\ r.location)
              => (dl'[d].st = "redirected" /\ dl'[d].gets = dl[d].gets + 1)
        /\ \A r \in Responses :
              RedirectResponse(d, r)
              => /\ dl'[d].gets = dl[d].gets
                 /\ r.status # 200 =>
                        /\ dl'[d].st = "failed"
                        /\ dl'[d].err = [kind |-> "http", status |-> r.status]]_vars

\* C29: a network error on the first request or on the request issued after
\* a redirect fails the call with that error, leaves no file at the `.tmp`
\* path and leaves the final path as it was.
C29_NetworkErrorCleansUp ==
    [][\A d \in Calls :
        (RequestError(d) \/ RedirectRequestError(d))
        => /\ dl'[d].st = "failed" /\ dl'[d].err.kind = "network"
           /\ dir'.tempPath = 0
           /\ dir'.modelPath = dir.modelPath]_vars

\* C38: a model enters the list of getDownloadedModels only in the step in
\* which a download of it, having received its whole body, renames the file
\* to the final path and resolves; a successful deleteModel takes it off the
\* list; and every listed name is the name of a model one of whose downloads
\* has resolved, whatever `.tmp` file is in the directory.
C38_ListedMeansRenamed ==
    [][/\ \A x \in getDownloadedModels' :
            \E n \in Catalog, d \in Calls :
                x = <<n>> /\ dl'[d].name = n /\ dl'[d].st = "resolved"
       /\ \A n \in Catalog :
            /\ (<<n>> \notin getDownloadedModels /\ <<n>> \in getDownloadedModels')
               => \E d \in Calls :
                     /\ dl[d].name = n /\ dl[d].got = NChunks
                     /\ dl[d].st \in {"body", "redirected body"}
                     /\ dl'[d].st = "resolved"
            /\ (DeleteModel(n) /\ del'.result)
               => <<n>> \notin getDownloadedModels']_vars

\* the model is listed after one download has resolved, while another
\* download of it is receiving its body into a `.tmp` file
C38_Witness ==
    /\ getDownloadedModels = {<<"tiny">>}
    /\ TempPath("tiny") \in ReadDir
    /\ \E a, b \in Calls :
          /\ dl[a].st = "resolved"
          /\ dl[b].st = "body" /\ dl[b].got < NChunks

----------------------------------------------------------------------------
(* Claims about transcriptions, checked under SpecTranscribe *)

\* a recognition process for the path is running and has not been cancelled
ActiveFor(c, f) == tr[c].st = "running" /\ tr[c].path = f /\ ~tr[c].signalled

\* C2: per file path at most one recognition process is running un-cancelled:
\* a transcribe call for a path that has one neither spawns a second process
\* nor replaces the registry entry.
C2_OneJobPerPath ==
    \A f \in FilePaths : Cardinality({c \in TrCalls : ActiveFor(c, f)}) <= 1

\* C10: a cancelTranscription(f) call made while a recognition process for f
\* is active returns true, signals such a process and leaves no registry
\* entry for f.
C10_CancelActive ==
    [][\A f \in FilePaths :
        ( /\ trCancel'.n = trCancel.n + 1 /\ trCancel'.path = f
          /\ \E c \in TrCalls : ActiveFor(c, f) )
        => ( /\ trCancel'.result = TRUE
             /\ \E c \in TrCalls : ActiveFor(c, f) /\ tr'[c].signalled
             /\ activeTranscriptions'[f] = 0 )]_vars

\* C11: a cancelTranscription(f) call made while no recognition process for
\* f is active (never started, already ended, or f names no file) returns
\* false, signals no process and leaves the registry as it was, on every
\* repetition.
C11_CancelIdleNoChange ==
    [][\A f \in FilePaths \cup {NoSuchPath} :
        ( /\ trCancel'.n = trCancel.n + 1 /\ trCancel'.path = f
          /\ ~\E c \in TrCalls : ActiveFor(c, f) )
        => ( /\ trCancel'.result = FALSE
             /\ tr' = tr
             /\ activeTranscriptions' = activeTranscriptions )]_vars

\* two cancels have been made, and the latest, for a path whose job has
\* completed, returned false
C11_Witness ==
    /\ trCancel.n = 2 /\ ~trCancel.result
    /\ \E c \in TrCalls : /\ tr[c].st = "ended" /\ tr[c].promise = "resolved"
                          /\ tr[c].path = trCancel.path
    /\ \A c \in TrCalls : ~ActiveFor(c, trCancel.path)

\* C12: the step in which the pending transcribe call of a cancelled
\* (signalled) recognition process settles does not surface a transcription
\* failure, and leaves the UI job of that call with status 'cancelled'.
C12_CancelledNotError ==
    [][\A c \in TrCalls :
        ( /\ tr[c].st = "running" /\ tr[c].signalled
          /\ tr[c].promise = "pending" /\ tr'[c].promise # "pending" )
        => ( /\ tr'[c].promise # "transcription failed"
             /\ jobs'[c] = "cancelled" )]_vars

\* C13: once a transcribe call whose input was converted has settled
\* (recognition exited 0, exited non-zero, was cancelled, or failed to
\* start), its converted WAV file is no longer on disk.
C13_ConvertedFileRemoved ==
    \A c \in TrCalls :
        tr[c].promise \notin {"none", "pending"} => tr[c].wav # "present"

\* a converted call has failed to start and another converted call has ended
\* after cancellation, both with their converted file deleted
C13_Witness ==
    \E a, b \in TrCalls :
        /\ tr[a].promise = "failed to start" /\ tr[a].wav = "deleted"
        /\ tr[b].promise = "transcription failed" /\ tr[b].wav = "deleted"
        /\ jobs[b] = "error"

C32_ConversionStep ==
    [][\A c \in TrCalls :
        /\ (tr[c].st = "idle" /\ tr'[c].st \in {"converting", "running"})
           => /\ tr'[c].st = "converting"
                    <=> ExtName(tr'[c].path) \notin {".flac", ".mp3", ".ogg", ".wav"}
              /\ tr'[c].wav = "none"
              /\ tr'[c].st = "converting" => activeTranscriptions' = activeTranscriptions
        /\ \A ok \in BOOLEAN :
              ConvertSettled(c, ok)
              => IF ok
                 THEN /\ tr'[c].st = "running" /\ tr'[c].wav = "present"
                      /\ activeTranscriptions'[tr[c].path] = c
                 ELSE /\ tr'[c].st = "ended"
                      /\ tr'[c].promise = "conversion failed"
                      /\ activeTranscriptions' = activeTranscriptions
        /\ (tr[c].st # "running" /\ tr'[c].st = "running")
           => (tr[c].st = "converting" <=> tr'[c].wav = "present")]_vars

\* the conversion of one .mp4 call has failed, leaving no registry entry,
\* while the recognition process of another runs on its converted file
C32_Witness ==
    \E a, b \in TrCalls :
        /\ tr[a].path = "clip.mp4" /\ tr[a].promise = "conversion failed"
        /\ tr[b].path = "clip.mp4" /\ tr[b].st = "running" /\ tr[b].wav = "present"
        /\ activeTranscriptions["clip.mp4"] = b

\* the call is between its start and its end: converting or recognising
InFlight(c) == tr[c].st \in {"converting", "running"}

\* C39: two transcribe calls that are in flight at the same time have
\* different converted-audio files and different recognition output bases.
C39_TempPathsDistinct ==
    \A a, b \in TrCalls :
        (a # b /\ InFlight(a) /\ InFlight(b))
        => /\ tr[a].converted # 0 => tr[a].converted # tr[b].converted
           /\ tr[a].outputBase # 0 => tr[a].outputBase # tr[b].outputBase

\* C25: a file path has an entry in activeTranscriptions exactly while a
\* recognition process started for that path is running and has not been
\* cancelled.
C25_RegistryMirrorsProcesses ==
    \A f \in FilePaths :
        activeTranscriptions[f] # 0 <=> \E c \in TrCalls : ActiveFor(c, f)

\* the status of a job that has succeeded, failed or been cancelled
Terminal == {"completed", "error", "cancelled"}

\* C26: once the jobs of a file path have all reached a terminal status
\* (completed, error or cancelled), no step delivers a progress value for
\* that path to the UI.
C26_NoProgressAfterTerminal ==
    [][\A f \in FilePaths :
        ( /\ \E c \in TrCalls : tr[c].path = f /\ jobs[c] \in Terminal
          /\ \A c \in TrCalls : tr[c].path = f => jobs[c] \in Terminal )
        => trProgress'[f] = trProgress[f]]_vars

\* C33: the status of a job that is completed, error or cancelled is the
\* same after every step.
C33_TerminalStatusFinal ==
    [][\A c \in TrCalls : jobs[c] \in Terminal => jobs'[c] = jobs[c]]_vars

\* C27: every percent delivered in a transcription progress event lies in
\* [0, 100] (-1: no event delivered yet for the path).
C27_PercentInRange ==
    \A f \in FilePaths :
        trProgress[f] # -1 => (0 <= trProgress[f] /\ trProgress[f] <= 100)

----------------------------------------------------------------------------
(* Claims about the streaming calls, checked under SpecStream *)

\* the lines of the response that were followed by a newline
CompleteLines == IF stream.terminated THEN stream.lines
                 ELSE SubSeq(stream.lines, 1, Len(stream.lines) - 1)

\* a stream without an error line whose done / success line, if any, is the
\* last one
ProperStream ==
    \A i \in 1..Len(stream.lines) :
        /\ stream.lines[i] # ErrorLine
        /\ stream.lines[i] = DoneLine => i = Len(stream.lines)

\* what the well-formed lines carry, in order: the response texts for
\* generateStream, the statuses for pullModel
RECURSIVE Payloads(_, _)
Payloads(lines, call) ==
    IF lines = <<>> THEN <<>>
    ELSE LET data == ParseLine(Decode(Head(lines))) IN
         IF ~data.ok THEN Payloads(Tail(lines), call)
         ELSE IF data.body = <<"D">>
              THEN (IF call = "pullModel" THEN <<(<<"success">>)>> ELSE <<>>)
                   \o Payloads(Tail(lines), call)
         ELSE <<data.body>> \o Payloads(Tail(lines), call)

RECURSIVE Concat(_)
Concat(texts) == IF texts = <<>> THEN <<>> ELSE Head(texts) \o Concat(Tail(texts))

\* C15: when a proper stream has been received to its end, the call has
\* resolved, the callback has been given the payload of every well-formed
\* complete line, in order, and nothing for a malformed line, and the text
\* generateStream resolved with is the concatenation of those payloads.
C15_MalformedLinesSkipped ==
    (stream.ended /\ ProperStream)
    => /\ stream.promise = "resolved"
       /\ stream.delivered = Payloads(CompleteLines, stream.call)
       /\ stream.call = "generateStream"
            => stream.result = Concat(Payloads(CompleteLines, stream.call))

\* C30: when a proper stream whose last line is well-formed and not followed
\* by a newline has been received to its end, that line has been handled
\* like the others: the callback has been given its payload after those of
\* the complete lines, and generateStream has resolved with a text that
\* ends with it.
C30_TrailingLineHandled ==
    ( /\ stream.ended /\ ProperStream /\ ~stream.terminated
      /\ ParseLine(Decode(stream.lines[Len(stream.lines)])).ok )
    => /\ Len(stream.delivered) = Len(Payloads(stream.lines, stream.call))
       /\ Payloads(<<stream.lines[Len(stream.lines)]>>, stream.call) # <<>>
            => /\ stream.delivered # <<>>
               /\ <<stream.delivered[Len(stream.delivered)]>>
                     = Payloads(<<stream.lines[Len(stream.lines)]>>, stream.call)
       /\ stream.call = "generateStream"
            => Len(stream.result) = Len(Concat(Payloads(stream.lines, stream.call)))

\* C36: once generateStream has resolved, the text it resolved with is the
\* concatenation, in order, of all the payloads passed to onChunk.
C36_ResultIsWhatWasDelivered ==
    (stream.call = "generateStream" /\ stream.promise = "resolved")
    => stream.result = Concat(stream.delivered)

\* C37: a pullModel call that has resolved true was sent a line with status
\* 'success', and no progress callback is made once the call has settled.
C37_PullSuccessNeedsSuccessLine ==
    [][ /\ (stream.call = "pullModel" /\ stream'.promise = "resolved")
            => \E i \in 1..Len(stream.lines) : stream.lines[i] = DoneLine
        /\ (stream.call = "pullModel" /\ stream.promise \in {"resolved", "rejected"})
            => stream'.delivered = stream.delivered ]_vars

----------------------------------------------------------------------------
(* Claims about the domain calls of the facades, checked under SpecRequest *)

\* the call failed because the backing process could not be reached: the
\* facade was not ready, or the connection was refused
Unreachable(c) == ~isServerReady \/ rq[c].transport = "refused"

\* the call was answered with a {success: false, ...} body
Rejected(c) ==
    rq[c].transport = "answered" /\ rq[c].body.json /\ ~rq[c].body.success

\* C17: a settled domain call that failed because the backing process was
\* unreachable has thrown the server-not-running error, and one answered
\* with a {success: false} body has thrown an error that is not the
\* server-not-running error.
C17_ErrorKindsDistinct ==
    \A c \in Reqs :
        rq[c].st = "settled" =>
            /\ Unreachable(c) => rq[c].outcome = Threw(NotRunningMessage)
            /\ Rejected(c) => /\ rq[c].outcome.kind = "error"
                              /\ rq[c].outcome.message # NotRunningMessage

\* C31: every request that has been issued and not yet completed can end by
\* its timeout: the timeout handler of the call is able to run.
C31_EveryRequestTimesOut ==
    \A c \in Reqs : rq[c].st = "requested" => ENABLED RequestTimeout(c)

\* C34: a domain call made while the ready flag is false ends in that step
\* with the server-not-running error, has issued no HTTP request, and leaves
\* the handle, the ready flag and the processes as they were.
C34_NotReadyFailsFast ==
    [][\A c \in Reqs, m \in Methods, exists \in BOOLEAN :
        (DomainCall(c, m, exists) /\ ~isServerReady)
        => /\ rq'[c].st = "settled"
           /\ rq'[c].outcome = Threw(NotRunningMessage)
           /\ rq'[c].requests = 0 /\ rq'[c].transport = "none"
           /\ srvVars' = srvVars]_vars

\* two domain calls, one of them on an existing file, have failed on a facade
\* that is not ready, without a request
C34_Witness ==
    /\ ~isServerReady
    /\ \E a, b \in Reqs :
          /\ rq[a].method = "generateSpeech" /\ rq[b].method = "analyzeVideo"
          /\ \A c \in {a, b} : /\ rq[c].outcome = Threw(NotRunningMessage)
                                /\ rq[c].requests = 0

====
